---- MODULE Spec2Model ----
(***************************************************************************)
(* Double-entry ledger of ipsas-financial-software: journal entries, their *)
(* lines, the approval workflow (JournalEntry.approve), the posting        *)
(* transaction (JournalEntry.post) and the chart-of-accounts balances.     *)
(*                                                                         *)
(* A request is served by a worker: it loads a JournalEntry instance from  *)
(* the database and then calls a method on that instance.  The guards of   *)
(* approve/post read the fields of the loaded instance; save() writes the  *)
(* instance's fields back to the row.  post runs inside transaction.atomic *)
(* and is modelled statement by statement: the database gives atomic       *)
(* commit/rollback, committed reads, and a row lock on every row a         *)
(* transaction has updated.                                                *)
(*                                                                         *)
(* Specifications:                                                         *)
(*   Spec          one entry, two workers: workflow, post, reverse and     *)
(*                 the trial balance                                       *)
(*   SpecPeriod    Spec with the closing and locking of the period         *)
(*   SpecAccounts  Spec with the deletion of accounts                      *)
(*   SpecEdit      one worker, with edits of the entry's lines             *)
(*   SpecAudit     one worker, with the audit sink                         *)
(*   SpecTwo       two approved entries posted by two workers              *)
(*   SpecNumber    the generation of entry numbers by two workers          *)
(*   SpecValidate  the validation of one entry with any fiscal period      *)
(*   SpecActive    one worker, with the deactivation of accounts           *)
(*   SpecTB        two entries in two periods and the trial balance        *)
(*   SpecReset     the confirmation of a password reset by two workers     *)
(*   SpecStatement the saving of financial statements                      *)
(***************************************************************************)
EXTENDS Integers, Sequences, FiniteSets, TLC

\* ---------------------------------------------------------------- bounds
MaxAmount == 2
MaxClock == 2
MaxEdits == 1
MaxApplied == 3
MaxEntryNumbers == 3
MaxFiscalPeriod == 13
MaxVersion == 2
MaxStatements == 2

\* ------------------------------------------------------------- constants
Workers == {"w1", "w2"}
Entries == {1}
Accounts == {"cash", "revenue"}
Periods == {1}
NoUser == "nobody"
NoTime == 0

ROLE_CHOICES == {"admin", "accountant", "auditor", "viewer", "manager"}

\* One user per role; a user is identified by its role.
Users == ROLE_CHOICES

role(user) == user

normal_balance(a) == IF a = "cash" THEN "debit" ELSE "credit"

ErrApprove == "User cannot approve this entry"
ErrPost == "User cannot post this entry"
ErrAborted == "transaction rolled back"
ErrReverse == "Only posted entries can be reversed"
ErrProtected == "ProtectedError"
ErrIntegrity == "IntegrityError"

VARIABLES
    entries,    \* committed JournalEntry rows ("absent" = no such row yet)
    lines,      \* committed JournalEntryLine rows of each entry, by line number
    balance,    \* committed ChartOfAccount.current_balance
    period,     \* committed FinancialPeriod.status
    req,        \* per worker: the request in progress and its local objects
    now,        \* timezone.now()
    applied,    \* history: how many post transactions of the entry committed
    edits,      \* history: how many line edits were made
    audit,      \* committed AuditLog rows
    live,       \* the ChartOfAccount rows that exist
    numbers,    \* committed JournalEntry.entry_number values of the month
    creating,   \* per worker: the JournalEntry instance being created
    inactive,   \* the ChartOfAccount rows whose is_active is False
    reset_token,\* the committed PasswordResetToken row
    password,   \* the user's committed password and how often it was set
    confirm,    \* per worker: the password reset confirmation in progress
    statements, \* committed FinancialStatement rows
    last_save   \* the FinancialStatement instance of the last save() call

vars ==
    <<entries, lines, balance, period, req, now, applied, edits,
      audit, live, numbers, creating,
      inactive, reset_token, password, confirm, statements, last_save>>

\* The state of the accounts application (password reset), of the account
\* activation flag and of the financial statements.
extraVars == <<inactive, reset_token, password, confirm, statements, last_save>>

\* ------------------------------------------------------------ data model
Line(a, d, c) == [account |-> a, debit_amount |-> d, credit_amount |-> c]

AbsentEntry ==
    [status |-> "absent", fiscal_period |-> 1,
     total_debits |-> 0, total_credits |-> 0,
     approved_by |-> NoUser, approved_at |-> NoTime,
     posted_by |-> NoUser, posted_at |-> NoTime]

NewEntry(fp, td, tc) ==
    [status |-> "draft", fiscal_period |-> fp,
     total_debits |-> td, total_credits |-> tc,
     approved_by |-> NoUser, approved_at |-> NoTime,
     posted_by |-> NoUser, posted_at |-> NoTime]

RECURSIVE SumDebits(_)
SumDebits(ls) ==
    IF ls = <<>> THEN 0 ELSE Head(ls).debit_amount + SumDebits(Tail(ls))

RECURSIVE SumCredits(_)
SumCredits(ls) ==
    IF ls = <<>> THEN 0 ELSE Head(ls).credit_amount + SumCredits(Tail(ls))

\* Signed effect of a line set on one account: sum of debit - credit.
RECURSIVE Delta(_, _)
Delta(ls, a) ==
    IF ls = <<>> THEN 0
    ELSE (IF Head(ls).account = a
          THEN Head(ls).debit_amount - Head(ls).credit_amount ELSE 0)
         + Delta(Tail(ls), a)

LineAccounts(ls) == {ls[i].account : i \in DOMAIN ls}

\* Line sets a caller creates an entry with.
LineTemplates ==
    { <<Line("cash", 1, 0), Line("revenue", 0, 1)>>,
      <<Line("cash", MaxAmount, 0), Line("cash", 0, 1)>> }

\* no trial balance computed
NoTB ==
    [debit_normal |-> 0, credit_normal |-> 0, fiscal_period |-> 0,
     lines |-> <<>>]

\* Line sets of a candidate entry: lines are created without clean() being
\* run, so a line may carry both a debit and a credit, or neither; an entry
\* may also be created with no line at all.
DraftTemplates ==
    LineTemplates \cup { <<Line("cash", 1, 1), Line("revenue", 0, 0)>>, <<>> }

IdleReq ==
    [pc |-> "idle", op |-> "none", actor |-> NoUser, entry |-> 1,
     inst |-> AbsentEntry, snap |-> <<>>, idx |-> 0, cur |-> 0,
     rd0 |-> <<>>, wr |-> <<>>, result |-> "none", tb |-> NoTB,
     account |-> "none"]

Tick(t) == IF t < MaxClock THEN t + 1 ELSE t

\* The audit sink: one AuditLog row per reported transition.  The sink is
\* an external collaborator; an operation that reports is conjoined with
\* Report in the specification that follows the sink, and with
\* UNCHANGED audit in the others.
AuditFact(action, object) == [action |-> action, object |-> object]

Report(action, object) == audit' = audit \cup {AuditFact(action, object)}

\* no creation in progress
NoCreate == [pc |-> "idle", entry_number |-> <<>>, result |-> "none"]

\* no password reset confirmation in progress
NoConfirm == [pc |-> "idle", new_password |-> "none", result |-> "none"]

\* no FinancialStatement saved yet
NoStatement ==
    [statement_type |-> <<>>, period_number |-> 0, version |-> 0,
     statement_code |-> <<>>, result |-> "none"]

\* Every account is active, one unused reset token that expires at
\* MaxClock was issued for the user, no statement is stored.
InitExtra ==
    /\ inactive = {}
    /\ reset_token = [is_used |-> FALSE, expires_at |-> MaxClock]
    /\ password = [value |-> "old", set |-> 0]
    /\ confirm = [w \in Workers |-> NoConfirm]
    /\ statements = {}
    /\ last_save = NoStatement

Init ==
    /\ entries = [e \in Entries |-> AbsentEntry]
    /\ lines = [e \in Entries |-> <<>>]
    /\ balance = [a \in Accounts |-> 0]
    /\ period = [p \in Periods |-> "open"]
    /\ req = [w \in Workers |-> IdleReq]
    /\ now = 1
    /\ applied = [e \in Entries |-> 0]
    /\ edits = 0
    /\ audit = {}
    /\ live = Accounts
    /\ numbers = {}
    /\ creating = [w \in Workers |-> NoCreate]
    /\ InitExtra

EmptyMap == [a \in {} |-> 0]

MapPut(f, k, v) == [a \in (DOMAIN f) \cup {k} |-> IF a = k THEN v ELSE f[a]]

\* ------------------------------------------------------------ validation
\* JournalEntry.clean: compares the stored header totals and checks the
\* fiscal period.
EntryClean(je) ==
    /\ ~(je.total_debits # je.total_credits)
    /\ ~(je.fiscal_period < 1 \/ je.fiscal_period > 12)

LineClean_AllowBoth(l) ==
    /\ ~(l.debit_amount < 0 \/ l.credit_amount < 0)
    /\ ~(l.debit_amount = 0 /\ l.credit_amount = 0)

\* JournalEntryLine.clean
LineClean(l) ==
    /\ ~(l.debit_amount < 0 \/ l.credit_amount < 0)
    /\ ~(l.debit_amount > 0 /\ l.credit_amount > 0)
    /\ ~(l.debit_amount = 0 /\ l.credit_amount = 0)

\* The Validator: the entry's clean() and the clean() of each of its lines.
Validate(e) ==
    /\ EntryClean(entries[e])
    /\ \A i \in DOMAIN lines[e] : LineClean(lines[e][i])

can_approve_NoRoleCheck(je, user) ==
    IF je.status # "pending" THEN FALSE ELSE TRUE

\* JournalEntry.can_approve
can_approve(je, user) ==
    IF je.status # "pending" THEN FALSE
    ELSE IF role(user) \in {"admin", "manager"} THEN TRUE
    ELSE FALSE

can_post_NoRoleCheck(je, user) ==
    IF je.status # "approved" THEN FALSE ELSE TRUE

\* JournalEntry.can_post
can_post(je, user) ==
    IF je.status # "approved" THEN FALSE
    ELSE IF role(user) \in {"admin", "accountant"} THEN TRUE
    ELSE FALSE

\* ------------------------------------------------- entry and line authoring
\* JournalEntry(...).save() followed by the creation of its lines.  The
\* header totals are plain fields: the caller leaves them at their default
\* 0.00 or sets them.
CreateEntry(e, ls, fp, td, tc) ==
    /\ entries[e].status = "absent"
    /\ \A e2 \in Entries : e2 < e => entries[e2].status # "absent"   \* AutoField pk
    /\ LineAccounts(ls) \subseteq live                    \* ForeignKey account
    /\ entries' = [entries EXCEPT ![e] = NewEntry(fp, td, tc)]
    /\ lines' = [lines EXCEPT ![e] = ls]
    /\ UNCHANGED <<balance, period, req, now, applied, edits>>
    /\ UNCHANGED <<audit, live, numbers, creating, extraVars>>

\* The amount of an existing line is overwritten and the line saved:
\* line.debit_amount = amt (or line.credit_amount = amt, for a credit line);
\* line.full_clean(); line.save().  JournalEntryLine has no guard on the
\* status of its journal entry.
EditLine(e, i, amt) ==
    LET l == lines[e][i]
        edited == IF l.debit_amount > 0
                  THEN Line(l.account, amt, l.credit_amount)
                  ELSE Line(l.account, l.debit_amount, amt)
    IN
    /\ entries[e].status # "absent"
    /\ i \in DOMAIN lines[e]
    /\ LineClean(edited)
    /\ edited # l
    /\ edits < MaxEdits
    /\ edits' = edits + 1
    /\ lines' = [lines EXCEPT ![e][i] = edited]
    /\ UNCHANGED <<entries, balance, period, req, now, applied>>
    /\ UNCHANGED <<audit, live, numbers, creating, extraVars>>

\* ------------------------------------------------------- workflow (spec)
\* submit: draft -> pending, requires the Validator to pass.
Submit(e) ==
    /\ entries[e].status = "draft"
    /\ Validate(e)
    /\ entries' = [entries EXCEPT ![e].status = "pending"]
    /\ UNCHANGED <<lines, balance, period, req, now, applied, edits>>
    /\ UNCHANGED <<live, numbers, creating, extraVars>>

\* reject: pending -> rejected, by a role with approval capability.
Reject(e, user) ==
    /\ entries[e].status = "pending"
    /\ role(user) \in {"admin", "manager"}
    /\ entries' = [entries EXCEPT ![e].status = "rejected"]
    /\ UNCHANGED <<lines, balance, period, req, now, applied, edits>>
    /\ UNCHANGED <<live, numbers, creating, extraVars>>

Cancel_AnyStatus(e) ==
    /\ entries[e].status \notin {"absent", "cancelled"}
    /\ entries' = [entries EXCEPT ![e].status = "cancelled"]
    /\ UNCHANGED <<lines, balance, period, req, now, applied, edits>>
    /\ UNCHANGED <<live, numbers, creating, extraVars>>

\* cancel: from draft, pending or approved.
Cancel(e) ==
    /\ entries[e].status \in {"draft", "pending", "approved"}
    /\ entries' = [entries EXCEPT ![e].status = "cancelled"]
    /\ UNCHANGED <<lines, balance, period, req, now, applied, edits>>
    /\ UNCHANGED <<live, numbers, creating, extraVars>>

EntriesIn(p) ==
    {e \in Entries : entries[e].status # "absent" /\ entries[e].fiscal_period = p}

ClosePeriod_NoCheck(p) ==
    /\ period[p] = "open"
    /\ period' = [period EXCEPT ![p] = "closed"]
    /\ UNCHANGED <<entries, lines, balance, req, now, applied, edits>>
    /\ UNCHANGED <<live, numbers, creating, extraVars>>

\* open -> closed, only when every entry of the period is terminal.
ClosePeriod(p) ==
    /\ period[p] = "open"
    /\ \A e \in EntriesIn(p) :
           entries[e].status \in {"posted", "rejected", "cancelled"}
    /\ period' = [period EXCEPT ![p] = "closed"]
    /\ UNCHANGED <<entries, lines, balance, req, now, applied, edits>>
    /\ UNCHANGED <<live, numbers, creating, extraVars>>

\* closed -> locked
LockPeriod(p) ==
    /\ period[p] = "closed"
    /\ period' = [period EXCEPT ![p] = "locked"]
    /\ UNCHANGED <<entries, lines, balance, req, now, applied, edits>>
    /\ UNCHANGED <<audit, live, numbers, creating, extraVars>>

\* ---------------------------------------------------------------- requests
\* The caller fetches the JournalEntry instance the method will run on.
Load(w, e) ==
    /\ req[w].pc = "idle"
    /\ entries[e].status # "absent"
    /\ req' = [req EXCEPT ![w] =
                 [IdleReq EXCEPT !.pc = "loaded", !.entry = e,
                                 !.inst = entries[e]]]
    /\ UNCHANGED <<entries, lines, balance, period, now, applied, edits>>
    /\ UNCHANGED <<audit, live, numbers, creating, extraVars>>

\* the method returned or raised: the request holds its outcome until the
\* response is sent
Done(r, o, user, res) ==
    [IdleReq EXCEPT !.pc = "done", !.op = o, !.entry = r.entry,
                    !.result = res]

\* the response is sent and the worker is free again
Reply(w) ==
    /\ req[w].pc = "done"
    /\ req' = [req EXCEPT ![w] = IdleReq]
    /\ UNCHANGED <<entries, lines, balance, period, now, applied, edits>>
    /\ UNCHANGED <<audit, live, numbers, creating, extraVars>>

Approve_UpdateFields(w, user) ==
    LET r == req[w] IN
    /\ r.pc = "loaded"
    /\ IF ~can_approve(r.inst, user)
       THEN /\ req' = [req EXCEPT ![w] = Done(r, "approve", user, ErrApprove)]
            /\ UNCHANGED <<entries, now>>
       ELSE /\ entries' = [entries EXCEPT ![r.entry] =
                             [entries[r.entry] EXCEPT !.status = "approved",
                                                      !.approved_by = user,
                                                      !.approved_at = now]]
            /\ now' = Tick(now)
            /\ req' = [req EXCEPT ![w] = Done(r, "approve", user, "ok")]
    /\ UNCHANGED <<lines, balance, period, applied, edits>>
    /\ UNCHANGED <<audit, live, numbers, creating, extraVars>>

\* JournalEntry.approve(user) on the loaded instance: save() writes every
\* field of the instance
Approve(w, user) ==
    LET r == req[w] IN
    /\ r.pc = "loaded"
    /\ IF ~can_approve(r.inst, user)
       THEN /\ req' = [req EXCEPT ![w] = Done(r, "approve", user, ErrApprove)]
            /\ UNCHANGED <<entries, now>>
       ELSE /\ entries' = [entries EXCEPT ![r.entry] =
                             [r.inst EXCEPT !.status = "approved",
                                            !.approved_by = user,
                                            !.approved_at = now]]
            /\ now' = Tick(now)
            /\ req' = [req EXCEPT ![w] = Done(r, "approve", user, "ok")]
    /\ UNCHANGED <<lines, balance, period, applied, edits>>
    /\ UNCHANGED <<audit, live, numbers, creating, extraVars>>

Reverse_NoStatusCheck(w, user) ==
    LET r == req[w] IN
    /\ r.pc = "loaded"
    /\ req' = [req EXCEPT ![w] = Done(r, "reverse", user, "ok")]
    /\ UNCHANGED <<entries, lines, balance, period, now, applied, edits>>
    /\ UNCHANGED <<audit, live, numbers, creating, extraVars>>

\* JournalEntry.reverse(user) on the loaded instance: the status check, and
\* then a body that consists of "pass": nothing is created and nothing saved.
Reverse(w, user) ==
    LET r == req[w] IN
    /\ r.pc = "loaded"
    /\ IF r.inst.status # "posted"
       THEN req' = [req EXCEPT ![w] = Done(r, "reverse", user, ErrReverse)]
       ELSE req' = [req EXCEPT ![w] = Done(r, "reverse", user, "ok")]
    /\ UNCHANGED <<entries, lines, balance, period, now, applied, edits>>
    /\ UNCHANGED <<audit, live, numbers, creating, extraVars>>

\* JournalEntry.post(user) on the loaded instance, up to the evaluation of
\* self.lines.all() inside the atomic block
PostBegin(w, user) ==
    LET r == req[w] IN
    /\ r.pc = "loaded"
    /\ IF ~can_post(r.inst, user)
       THEN req' = [req EXCEPT ![w] = Done(r, "post", user, ErrPost)]
       ELSE req' = [req EXCEPT ![w] =
                         [r EXCEPT !.op = "post", !.actor = user,
                                   !.snap = lines[r.entry], !.idx = 1,
                                   !.rd0 = EmptyMap, !.wr = EmptyMap,
                                   !.pc = IF lines[r.entry] = <<>>
                                          THEN "save" ELSE "read"]]
    /\ UNCHANGED <<entries, lines, balance, period, now, applied, edits>>
    /\ UNCHANGED <<audit, live, numbers, creating, extraVars>>

InTxn(r) == r.pc \in {"read", "write", "save"}

\* the value a transaction reads: its own write, else the committed value
Visible(r, a) == IF a \in DOMAIN r.wr THEN r.wr[a] ELSE balance[a]

PostRead_Assign(w) ==
    LET r == req[w]
        l == r.snap[r.idx]
        v == Visible(r, l.account)
    IN
    /\ r.pc = "read"
    /\ req' = [req EXCEPT ![w] =
                 [r EXCEPT !.cur = l.debit_amount - l.credit_amount,
                           !.rd0 = IF l.account \in DOMAIN r.rd0 THEN r.rd0
                                   ELSE MapPut(r.rd0, l.account, v),
                           !.pc = "write"]]
    /\ UNCHANGED <<entries, lines, balance, period, now, applied, edits>>
    /\ UNCHANGED <<audit, live, numbers, creating, extraVars>>

\* line.account (fetched from the database) and, in memory,
\* current_balance += debit_amount - credit_amount
PostRead(w) ==
    LET r == req[w]
        l == r.snap[r.idx]
        v == Visible(r, l.account)
    IN
    /\ r.pc = "read"
    /\ req' = [req EXCEPT ![w] =
                 [r EXCEPT !.cur = v + l.debit_amount - l.credit_amount,
                           !.rd0 = IF l.account \in DOMAIN r.rd0 THEN r.rd0
                                   ELSE MapPut(r.rd0, l.account, v),
                           !.pc = "write"]]
    /\ UNCHANGED <<entries, lines, balance, period, now, applied, edits>>
    /\ UNCHANGED <<audit, live, numbers, creating, extraVars>>

RowLockedByOther(w, a) ==
    \E w2 \in Workers \ {w} : InTxn(req[w2]) /\ a \in DOMAIN req[w2].wr

\* line.account.save(): UPDATE of the account row inside the transaction
PostWrite(w) ==
    LET r == req[w]
        l == r.snap[r.idx]
    IN
    /\ r.pc = "write"
    /\ ~RowLockedByOther(w, l.account)
    /\ req' = [req EXCEPT ![w] =
                 [r EXCEPT !.wr = MapPut(r.wr, l.account, r.cur),
                           !.cur = 0,
                           !.idx = r.idx + 1,
                           !.pc = IF r.idx = Len(r.snap)
                                  THEN "save" ELSE "read"]]
    /\ UNCHANGED <<entries, lines, balance, period, now, applied, edits>>
    /\ UNCHANGED <<audit, live, numbers, creating, extraVars>>

Bump(n) == IF n < MaxApplied THEN n + 1 ELSE n

\* status/posted_by/posted_at, self.save() and the commit of the atomic block
PostCommit(w) ==
    LET r == req[w]
        saved == [r.inst EXCEPT !.status = "posted",
                                !.posted_by = r.actor,
                                !.posted_at = now]
    IN
    /\ r.pc = "save"
    /\ entries' = [entries EXCEPT ![r.entry] = saved]
    /\ balance' = [a \in Accounts |->
                     IF a \in DOMAIN r.wr THEN r.wr[a] ELSE balance[a]]
    /\ now' = Tick(now)
    /\ applied' = [applied EXCEPT ![r.entry] = Bump(applied[r.entry])]
    /\ req' = [req EXCEPT ![w] = Done(r, "post", r.actor, "ok")]
    /\ UNCHANGED <<lines, period, edits>>
    /\ UNCHANGED <<audit, live, numbers, creating, extraVars>>

PostAbort_NoRollback(w) ==
    LET r == req[w] IN
    /\ InTxn(r)
    /\ balance' = [a \in Accounts |->
                     IF a \in DOMAIN r.wr THEN r.wr[a] ELSE balance[a]]
    /\ req' = [req EXCEPT ![w] =
                 [Done(r, "post", r.actor, ErrAborted) EXCEPT !.idx = r.idx]]
    /\ UNCHANGED <<entries, lines, period, now, applied, edits>>
    /\ UNCHANGED <<audit, live, numbers, creating, extraVars>>

\* an exception (database error, deadlock victim, timeout, cancellation)
\* leaves the atomic block: the transaction is rolled back.  The outcome
\* keeps the number of the line that was being applied.
PostAbort(w) ==
    LET r == req[w] IN
    /\ InTxn(r)
    /\ req' = [req EXCEPT ![w] =
                 [Done(r, "post", r.actor, ErrAborted) EXCEPT !.idx = r.idx]]
    /\ UNCHANGED <<entries, lines, balance, period, now, applied, edits>>
    /\ UNCHANGED <<audit, live, numbers, creating, extraVars>>

\* ------------------------------------------------- trial balance (spec)
RECURSIVE SetSum(_, _)
SetSum(S, f) ==
    IF S = {} THEN 0
    ELSE LET x == CHOOSE y \in S : TRUE IN f[x] + SetSum(S \ {x}, f)

RECURSIVE DebitOn(_, _)
DebitOn(ls, a) ==
    IF ls = <<>> THEN 0
    ELSE (IF Head(ls).account = a THEN Head(ls).debit_amount ELSE 0)
         + DebitOn(Tail(ls), a)

RECURSIVE CreditOn(_, _)
CreditOn(ls, a) ==
    IF ls = <<>> THEN 0
    ELSE (IF Head(ls).account = a THEN Head(ls).credit_amount ELSE 0)
         + CreditOn(Tail(ls), a)

PostedIn_AnyPeriod(p) ==
    {e \in DOMAIN entries : entries[e].status = "posted"}

\* the posted entries whose fiscal period is p
PostedIn(p) ==
    {e \in DOMAIN entries :
        entries[e].status = "posted" /\ entries[e].fiscal_period = p}

\* no prior period: the opening balance is the configured one, zero
OpeningBalance(a) == 0

PeriodDebit(a, p) ==
    SetSum(PostedIn(p), [e \in PostedIn(p) |-> DebitOn(lines[e], a)])

PeriodCredit(a, p) ==
    SetSum(PostedIn(p), [e \in PostedIn(p) |-> CreditOn(lines[e], a)])

\* closing = opening +/- period movement, by the normal-balance polarity
ClosingBalance(a, p) ==
    IF normal_balance(a) = "debit"
    THEN OpeningBalance(a) + PeriodDebit(a, p) - PeriodCredit(a, p)
    ELSE OpeningBalance(a) + PeriodCredit(a, p) - PeriodDebit(a, p)

\* one TrialBalanceLine per account
TrialBalanceLines(p) ==
    [a \in Accounts |->
        [opening_balance |-> OpeningBalance(a),
         period_debit |-> PeriodDebit(a, p),
         period_credit |-> PeriodCredit(a, p),
         closing_balance |-> ClosingBalance(a, p)]]

TrialBalanceOf(p) ==
    LET dn == {a \in Accounts : normal_balance(a) = "debit"}
        cn == {a \in Accounts : normal_balance(a) = "credit"}
    IN [debit_normal |-> SetSum(dn, [a \in dn |-> ClosingBalance(a, p)]),
        credit_normal |-> SetSum(cn, [a \in cn |-> ClosingBalance(a, p)]),
        fiscal_period |-> p,
        lines |-> TrialBalanceLines(p)]

ErrConsistency == "trial balance does not foot"

ComputeTrialBalance_WriteBack(w, p) ==
    LET t == TrialBalanceOf(p) IN
    /\ req[w].pc = "idle"
    /\ req' = [req EXCEPT ![w] =
                 [IdleReq EXCEPT !.pc = "done", !.op = "trial_balance",
                                 !.tb = t,
                                 !.result = IF t.debit_normal = t.credit_normal
                                            THEN "ok" ELSE ErrConsistency]]
    /\ balance' = [a \in Accounts |->
                     PeriodDebit(a, p) - PeriodCredit(a, p)]
    /\ UNCHANGED <<entries, lines, period, now, applied, edits>>
    /\ UNCHANGED <<audit, live, numbers, creating, extraVars>>

\* computeTrialBalance(fiscalYear, fiscalPeriod): reads the posted data and
\* returns the totals, or the consistency error when they differ
ComputeTrialBalance(w, p) ==
    LET t == TrialBalanceOf(p) IN
    /\ req[w].pc = "idle"
    /\ req' = [req EXCEPT ![w] =
                 [IdleReq EXCEPT !.pc = "done", !.op = "trial_balance",
                                 !.tb = t,
                                 !.result = IF t.debit_normal = t.credit_normal
                                            THEN "ok" ELSE ErrConsistency]]
    /\ UNCHANGED <<entries, lines, balance, period, now, applied, edits>>
    /\ UNCHANGED <<audit, live, numbers, creating, extraVars>>

Amounts == 0..MaxAmount

Next ==
    \/ \E e \in Entries, ls \in DraftTemplates, fp \in Periods :
          \E t \in {<<0, 0>>, <<SumDebits(ls), SumCredits(ls)>>} :
             CreateEntry(e, ls, fp, t[1], t[2])
    \/ \E e \in Entries : Submit(e) /\ UNCHANGED audit
    \/ \E e \in Entries, u \in Users : Reject(e, u) /\ UNCHANGED audit
    \/ \E e \in Entries : Cancel(e) /\ UNCHANGED audit
    \/ \E w \in Workers, e \in Entries : Load(w, e)
    \/ \E w \in Workers, u \in Users : Approve(w, u)
    \/ \E w \in Workers, u \in Users : PostBegin(w, u)
    \/ \E w \in Workers, u \in Users : Reverse(w, u)
    \/ \E w \in Workers, p \in Periods : ComputeTrialBalance(w, p)
    \/ \E w \in Workers : PostRead(w)
    \/ \E w \in Workers : PostWrite(w)
    \/ \E w \in Workers : PostCommit(w)
    \/ \E w \in Workers : PostAbort(w)
    \/ \E w \in Workers : Reply(w)

Spec == Init /\ [][Next]_vars

\* The ledger together with the Period Controller.
NextPeriod ==
    \/ Next
    \/ \E p \in Periods : ClosePeriod(p) /\ UNCHANGED audit
    \/ \E p \in Periods : LockPeriod(p)

SpecPeriod == Init /\ [][NextPeriod]_vars

\* ------------------------------------------------------ account deletion
\* the lines that reference account a (related_name journal_lines)
journal_lines(a) ==
    UNION { {<<e, i>> : i \in {j \in DOMAIN lines[e] :
                                  lines[e][j].account = a}} :
            e \in DOMAIN lines }

RECURSIVE Without(_, _)
Without(ls, a) ==
    IF ls = <<>> THEN <<>>
    ELSE IF Head(ls).account = a THEN Without(Tail(ls), a)
    ELSE <<Head(ls)>> \o Without(Tail(ls), a)

DeleteAccount_Cascade(w, a) ==
    /\ req[w].pc = "idle"
    /\ a \in live
    /\ req' = [req EXCEPT ![w] =
                 [IdleReq EXCEPT !.pc = "done", !.op = "delete_account",
                                 !.account = a, !.result = "ok"]]
    /\ live' = live \ {a}
    /\ lines' = [e \in DOMAIN lines |-> Without(lines[e], a)]
    /\ UNCHANGED <<entries, balance, period, now, applied, edits>>
    /\ UNCHANGED <<audit, numbers, creating, extraVars>>

\* ChartOfAccount.delete(): JournalEntryLine.account is on_delete=PROTECT,
\* so the deletion raises ProtectedError while any line references the
\* account; otherwise the row is deleted.
DeleteAccount(w, a) ==
    /\ req[w].pc = "idle"
    /\ a \in live
    /\ IF journal_lines(a) # {}
       THEN /\ req' = [req EXCEPT ![w] =
                         [IdleReq EXCEPT !.pc = "done",
                                         !.op = "delete_account",
                                         !.account = a,
                                         !.result = ErrProtected]]
            /\ UNCHANGED live
       ELSE /\ req' = [req EXCEPT ![w] =
                         [IdleReq EXCEPT !.pc = "done",
                                         !.op = "delete_account",
                                         !.account = a, !.result = "ok"]]
            /\ live' = live \ {a}
    /\ UNCHANGED <<entries, lines, balance, period, now, applied, edits>>
    /\ UNCHANGED <<audit, numbers, creating, extraVars>>

\* The ledger together with the deletion of accounts.
NextAccounts ==
    \/ Next
    \/ \E w \in Workers, a \in Accounts : DeleteAccount(w, a)

SpecAccounts == Init /\ [][NextAccounts]_vars

\* ------------------------------------------------- line edits
\* One worker serves the requests while the lines of the entry are edited.
EditWorkers == {"w1"}

NextEdit ==
    \/ \E e \in Entries, ls \in DraftTemplates, fp \in Periods :
          \E t \in {<<0, 0>>, <<SumDebits(ls), SumCredits(ls)>>} :
             CreateEntry(e, ls, fp, t[1], t[2])
    \/ \E e \in Entries, i \in 1..2, amt \in Amounts : EditLine(e, i, amt)
    \/ \E e \in Entries : Submit(e) /\ UNCHANGED audit
    \/ \E w \in EditWorkers, e \in Entries : Load(w, e)
    \/ \E w \in EditWorkers, u \in Users : Approve(w, u)
    \/ \E w \in EditWorkers, u \in Users : PostBegin(w, u)
    \/ \E w \in EditWorkers : PostRead(w)
    \/ \E w \in EditWorkers : PostWrite(w)
    \/ \E w \in EditWorkers : PostCommit(w)
    \/ \E w \in EditWorkers : PostAbort(w)
    \/ \E w \in EditWorkers : Reply(w)

SpecEdit == Init /\ [][NextEdit]_vars

\* ------------------------------------------------- the audit sink
\* One worker serves the requests; submit, reject, cancel and period-close
\* report to the sink.  approve and post are the methods of JournalEntry,
\* which create no AuditLog row.
AuditWorkers == {"w1"}

NextAudit ==
    \/ \E e \in Entries, ls \in DraftTemplates, fp \in Periods :
          CreateEntry(e, ls, fp, 0, 0)
    \/ \E e \in Entries : Submit(e) /\ Report("submit", e)
    \/ \E e \in Entries, u \in Users : Reject(e, u) /\ Report("reject", e)
    \/ \E e \in Entries : Cancel(e) /\ Report("cancel", e)
    \/ \E p \in Periods : ClosePeriod(p) /\ Report("period-close", p)
    \/ \E w \in AuditWorkers, e \in Entries : Load(w, e)
    \/ \E w \in AuditWorkers, u \in Users : Approve(w, u)
    \/ \E w \in AuditWorkers, u \in Users : PostBegin(w, u)
    \/ \E w \in AuditWorkers : PostRead(w)
    \/ \E w \in AuditWorkers : PostWrite(w)
    \/ \E w \in AuditWorkers : PostCommit(w)
    \/ \E w \in AuditWorkers : PostAbort(w)
    \/ \E w \in AuditWorkers : Reply(w)

SpecAudit == Init /\ [][NextAudit]_vars

\* ------------------------------------------------- entry numbers
\* An entry number without its prefix JE<year><month> is a string of digits,
\* modelled as the sequence of its digits.
RECURSIVE Digits(_)
Digits(n) == IF n < 10 THEN <<n>> ELSE Append(Digits(n \div 10), n % 10)

\* f"{new_number:04d}": at least four digits, zero-padded
RECURSIVE Pad04(_)
Pad04(ds) == IF Len(ds) >= 4 THEN ds ELSE Pad04(<<0>> \o ds)

Format04(n) == Pad04(Digits(n))

\* int(s)
RECURSIVE ParseInt(_)
ParseInt(ds) ==
    IF ds = <<>> THEN 0
    ELSE 10 * ParseInt(SubSeq(ds, 1, Len(ds) - 1)) + ds[Len(ds)]

\* s[-4:]
Last4(s) == SubSeq(s, Len(s) - 3, Len(s))

\* s < t in the ordering of strings (order_by on a CharField)
RECURSIVE StrLess(_, _)
StrLess(s, t) ==
    IF t = <<>> THEN FALSE
    ELSE IF s = <<>> THEN TRUE
    ELSE IF Head(s) # Head(t) THEN Head(s) < Head(t)
    ELSE StrLess(Tail(s), Tail(t))

\* .order_by('-entry_number').first()
last_entry == CHOOSE s \in numbers : \A t \in numbers : t = s \/ StrLess(t, s)

\* JournalEntry._generate_entry_number
generate_entry_number ==
    IF numbers # {}
    THEN Format04(ParseInt(Last4(last_entry)) + 1)
    ELSE Format04(1)

\* save(), first half: the instance has no entry_number and is given one
GenerateNumber(w) ==
    /\ creating[w].pc = "idle"
    /\ Cardinality(numbers) < MaxEntryNumbers
    /\ creating' = [creating EXCEPT ![w] =
                      [pc |-> "generated",
                       entry_number |-> generate_entry_number,
                       result |-> "none"]]
    /\ UNCHANGED <<entries, lines, balance, period, req, now, applied, edits>>
    /\ UNCHANGED <<audit, live, numbers, extraVars>>

\* save(), second half: super().save() inserts the row; entry_number is
\* unique=True
InsertEntry(w) ==
    LET c == creating[w] IN
    /\ c.pc = "generated"
    /\ IF c.entry_number \in numbers
       THEN /\ creating' = [creating EXCEPT ![w] =
                              [c EXCEPT !.pc = "done", !.result = ErrIntegrity]]
            /\ UNCHANGED numbers
       ELSE /\ creating' = [creating EXCEPT ![w] =
                              [c EXCEPT !.pc = "done", !.result = "ok"]]
            /\ numbers' = numbers \cup {c.entry_number}
    /\ UNCHANGED <<entries, lines, balance, period, req, now, applied, edits>>
    /\ UNCHANGED <<audit, live, extraVars>>

FinishCreate(w) ==
    /\ creating[w].pc = "done"
    /\ creating' = [creating EXCEPT ![w] = NoCreate]
    /\ UNCHANGED <<entries, lines, balance, period, req, now, applied, edits>>
    /\ UNCHANGED <<audit, live, numbers, extraVars>>

\* entry numbers stored earlier in the month
StoredNumbers == { {}, {Format04(1)}, {Format04(9998)}, {Format04(9999)} }

InitNumber ==
    /\ entries = [e \in Entries |-> AbsentEntry]
    /\ lines = [e \in Entries |-> <<>>]
    /\ balance = [a \in Accounts |-> 0]
    /\ period = [p \in Periods |-> "open"]
    /\ req = [w \in Workers |-> IdleReq]
    /\ now = 1
    /\ applied = [e \in Entries |-> 0]
    /\ edits = 0
    /\ audit = {}
    /\ live = Accounts
    /\ numbers \in StoredNumbers
    /\ creating = [w \in Workers |-> NoCreate]
    /\ InitExtra

NextNumber ==
    \/ \E w \in Workers : GenerateNumber(w)
    \/ \E w \in Workers : InsertEntry(w)
    \/ \E w \in Workers : FinishCreate(w)

SpecNumber == InitNumber /\ [][NextNumber]_vars

\* ------------------------------------------------- two entries, posting
\* The posting engine on a ledger that holds entry 1, approved, and either a
\* second approved entry or room for one.  Both were created, submitted and
\* approved by a manager before; only requests are served from here on.
TwoEntries == {1, 2}

ApprovedEntry(at) ==
    [NewEntry(1, 0, 0) EXCEPT !.status = "approved",
                              !.approved_by = "manager",
                              !.approved_at = at]

InitTwo ==
    /\ \E l1 \in LineTemplates, l2 \in LineTemplates \cup {<<>>} :
          /\ lines = [e \in TwoEntries |-> IF e = 1 THEN l1 ELSE l2]
          /\ entries = [e \in TwoEntries |->
                           IF e = 1 THEN ApprovedEntry(1)
                           ELSE IF l2 = <<>> THEN AbsentEntry
                           ELSE ApprovedEntry(Tick(1))]
    /\ balance = [a \in Accounts |-> 0]
    /\ period = [p \in Periods |-> "open"]
    /\ req = [w \in Workers |-> IdleReq]
    /\ now = Tick(Tick(1))
    /\ applied = [e \in TwoEntries |-> 0]
    /\ edits = 0
    /\ audit = {}
    /\ live = Accounts
    /\ numbers = {}
    /\ creating = [w \in Workers |-> NoCreate]
    /\ InitExtra

NextTwo ==
    \/ \E w \in Workers, e \in TwoEntries : Load(w, e)
    \/ \E w \in Workers, u \in Users : PostBegin(w, u)
    \/ \E w \in Workers, u \in Users : Reverse(w, u)
    \/ \E w \in Workers : PostRead(w)
    \/ \E w \in Workers : PostWrite(w)
    \/ \E w \in Workers : PostCommit(w)
    \/ \E w \in Workers : PostAbort(w)
    \/ \E w \in Workers : Reply(w)

SpecTwo == InitTwo /\ [][NextTwo]_vars

\* ------------------------------------------------- model validation
\* Model.full_clean() of a JournalEntry instance: clean_fields() runs the
\* validators declared on each field, then clean() runs.  The validators of
\* fiscal_period are MinValueValidator(1) and MinValueValidator(12).
MinValueValidator(limit_value, value) == ~(value < limit_value)

fiscal_period_validators(value) ==
    /\ MinValueValidator(1, value)
    /\ MinValueValidator(12, value)

ErrField == "ValidationError: fiscal_period"
ErrClean == "ValidationError"

full_clean(je) ==
    IF ~fiscal_period_validators(je.fiscal_period) THEN ErrField
    ELSE IF ~EntryClean(je) THEN ErrClean
    ELSE "ok"

\* a request validates the loaded instance; nothing is written
FullClean(w) ==
    LET r == req[w] IN
    /\ r.pc = "loaded"
    /\ req' = [req EXCEPT ![w] =
                 Done(r, "full_clean", NoUser, full_clean(r.inst))]
    /\ UNCHANGED <<entries, lines, balance, period, now, applied, edits>>
    /\ UNCHANGED <<audit, live, numbers, creating, extraVars>>

\* fiscal_period is an IntegerField: any integer can be stored
FiscalPeriods == (0 - 1) .. MaxFiscalPeriod

\* A draft entry with header totals that agree or not, and any fiscal
\* period.
InitValidate ==
    /\ \E ls \in DraftTemplates, fp \in FiscalPeriods :
       \E t \in {<<0, 0>>, <<SumDebits(ls), SumCredits(ls)>>} :
          /\ entries = [e \in Entries |-> NewEntry(fp, t[1], t[2])]
          /\ lines = [e \in Entries |-> ls]
    /\ balance = [a \in Accounts |-> 0]
    /\ period = [p \in Periods |-> "open"]
    /\ req = [w \in Workers |-> IdleReq]
    /\ now = 1
    /\ applied = [e \in Entries |-> 0]
    /\ edits = 0
    /\ audit = {}
    /\ live = Accounts
    /\ numbers = {}
    /\ creating = [w \in Workers |-> NoCreate]
    /\ InitExtra

NextValidate ==
    \/ \E w \in Workers, e \in Entries : Load(w, e)
    \/ \E w \in Workers : FullClean(w)
    \/ \E w \in Workers : Reply(w)

SpecValidate == InitValidate /\ [][NextValidate]_vars

\* ------------------------------------------------- account activation
\* ChartOfAccount.is_active is a plain field: an update of the row sets it
\* to False.  No method of JournalEntry or JournalEntryLine reads it.
DeactivateAccount(a) ==
    /\ a \in live
    /\ a \notin inactive
    /\ inactive' = inactive \cup {a}
    /\ UNCHANGED <<entries, lines, balance, period, req, now, applied, edits>>
    /\ UNCHANGED <<audit, live, numbers, creating>>
    /\ UNCHANGED <<reset_token, password, confirm, statements, last_save>>

ActiveWorkers == {"w1"}

\* The ledger served by one worker, together with the deactivation of
\* accounts.
NextActive ==
    \/ \E e \in Entries, ls \in DraftTemplates, fp \in Periods :
          \E t \in {<<0, 0>>, <<SumDebits(ls), SumCredits(ls)>>} :
             CreateEntry(e, ls, fp, t[1], t[2])
    \/ \E a \in Accounts : DeactivateAccount(a)
    \/ \E e \in Entries : Submit(e) /\ UNCHANGED audit
    \/ \E w \in ActiveWorkers, e \in Entries : Load(w, e)
    \/ \E w \in ActiveWorkers, u \in Users : Approve(w, u)
    \/ \E w \in ActiveWorkers, u \in Users : PostBegin(w, u)
    \/ \E w \in ActiveWorkers : PostRead(w)
    \/ \E w \in ActiveWorkers : PostWrite(w)
    \/ \E w \in ActiveWorkers : PostCommit(w)
    \/ \E w \in ActiveWorkers : PostAbort(w)
    \/ \E w \in ActiveWorkers : Reply(w)

SpecActive == Init /\ [][NextActive]_vars

\* ------------------------------------------------- two entries, trial balance
\* Two approved entries of one fiscal year, the second in either period,
\* are posted while trial balances of either period are computed.
TBPeriods == {1, 2}

InitTB ==
    /\ \E l1 \in LineTemplates, l2 \in LineTemplates, fp \in TBPeriods :
          /\ lines = [e \in TwoEntries |-> IF e = 1 THEN l1 ELSE l2]
          /\ entries = [e \in TwoEntries |->
                           IF e = 1 THEN ApprovedEntry(1)
                           ELSE [ApprovedEntry(Tick(1))
                                   EXCEPT !.fiscal_period = fp]]
    /\ balance = [a \in Accounts |-> 0]
    /\ period = [p \in Periods |-> "open"]
    /\ req = [w \in Workers |-> IdleReq]
    /\ now = Tick(Tick(1))
    /\ applied = [e \in TwoEntries |-> 0]
    /\ edits = 0
    /\ audit = {}
    /\ live = Accounts
    /\ numbers = {}
    /\ creating = [w \in Workers |-> NoCreate]
    /\ InitExtra

NextTB ==
    \/ \E w \in Workers, e \in TwoEntries : Load(w, e)
    \/ \E w \in Workers, u \in {"accountant", "viewer"} : PostBegin(w, u)
    \/ \E w \in Workers, p \in TBPeriods : ComputeTrialBalance(w, p)
    \/ \E w \in Workers : PostRead(w)
    \/ \E w \in Workers : PostWrite(w)
    \/ \E w \in Workers : PostCommit(w)
    \/ \E w \in Workers : PostAbort(w)
    \/ \E w \in Workers : Reply(w)

SpecTB == InitTB /\ [][NextTB]_vars

\* ------------------------------------------------- password reset
\* PasswordResetConfirmView.post, statement by statement.  The view runs
\* outside any transaction and takes no lock: each statement commits on its
\* own.
ErrToken == "Invalid or expired reset token"

NewPasswords == {"p1", "p2"}

\* PasswordResetToken.objects.get(token=token, is_used=False,
\* expires_at__gt=timezone.now()), or DoesNotExist and the 400 response
ConfirmGet(w, new_password) ==
    /\ confirm[w].pc = "idle"
    /\ IF ~reset_token.is_used /\ reset_token.expires_at > now
       THEN confirm' = [confirm EXCEPT ![w] =
                          [pc |-> "got", new_password |-> new_password,
                           result |-> "none"]]
       ELSE confirm' = [confirm EXCEPT ![w] =
                          [pc |-> "done", new_password |-> new_password,
                           result |-> ErrToken]]
    /\ UNCHANGED <<entries, lines, balance, period, req, now, applied, edits>>
    /\ UNCHANGED <<audit, live, numbers, creating>>
    /\ UNCHANGED <<inactive, reset_token, password, statements, last_save>>

\* user.set_password(new_password); user.save()
ConfirmSetPassword(w) ==
    /\ confirm[w].pc = "got"
    /\ password' = [value |-> confirm[w].new_password,
                    set |-> password.set + 1]
    /\ confirm' = [confirm EXCEPT ![w].pc = "set"]
    /\ UNCHANGED <<entries, lines, balance, period, req, now, applied, edits>>
    /\ UNCHANGED <<audit, live, numbers, creating>>
    /\ UNCHANGED <<inactive, reset_token, statements, last_save>>

\* reset_token.is_used = True; reset_token.save(); the 200 response
ConfirmMarkUsed(w) ==
    /\ confirm[w].pc = "set"
    /\ reset_token' = [reset_token EXCEPT !.is_used = TRUE]
    /\ confirm' = [confirm EXCEPT ![w].pc = "done", ![w].result = "ok"]
    /\ UNCHANGED <<entries, lines, balance, period, req, now, applied, edits>>
    /\ UNCHANGED <<audit, live, numbers, creating>>
    /\ UNCHANGED <<inactive, password, statements, last_save>>

\* the response is sent
ConfirmReply(w) ==
    /\ confirm[w].pc = "done"
    /\ confirm' = [confirm EXCEPT ![w] = NoConfirm]
    /\ UNCHANGED <<entries, lines, balance, period, req, now, applied, edits>>
    /\ UNCHANGED <<audit, live, numbers, creating>>
    /\ UNCHANGED <<inactive, reset_token, password, statements, last_save>>

\* time passes; the token expires when the clock reaches expires_at
PassTime ==
    /\ now < MaxClock
    /\ now' = now + 1
    /\ UNCHANGED <<entries, lines, balance, period, req, applied, edits>>
    /\ UNCHANGED <<audit, live, numbers, creating, extraVars>>

NextReset ==
    \/ \E w \in Workers, pw \in NewPasswords : ConfirmGet(w, pw)
    \/ \E w \in Workers : ConfirmSetPassword(w)
    \/ \E w \in Workers : ConfirmMarkUsed(w)
    \/ \E w \in Workers : ConfirmReply(w)
    \/ PassTime

SpecReset == Init /\ [][NextReset]_vars

\* ------------------------------------------------- statement codes
\* A string is modelled as the sequence of its characters.
LowerCase == <<"a", "b", "c", "d", "e", "f", "g", "h", "i", "j", "k", "l", "m",
               "n", "o", "p", "q", "r", "s", "t", "u", "v", "w", "x", "y", "z">>

UpperCase == <<"A", "B", "C", "D", "E", "F", "G", "H", "I", "J", "K", "L", "M",
               "N", "O", "P", "Q", "R", "S", "T", "U", "V", "W", "X", "Y", "Z">>

DigitChars == <<"0", "1", "2", "3", "4", "5", "6", "7", "8", "9">>

\* str.upper(), character by character
upper(s) ==
    [i \in DOMAIN s |->
        IF \E k \in DOMAIN LowerCase : LowerCase[k] = s[i]
        THEN UpperCase[CHOOSE k \in DOMAIN LowerCase : LowerCase[k] = s[i]]
        ELSE s[i]]

\* s[:3]
First3(s) == SubSeq(s, 1, IF Len(s) < 3 THEN Len(s) ELSE 3)

\* f"{n}"
Str(n) == [i \in DOMAIN Digits(n) |-> DigitChars[Digits(n)[i] + 1]]

\* f"{n:02d}": at least two digits, zero-padded
Format02(n) == IF n < 10 THEN <<"0">> \o Str(n) ELSE Str(n)

\* FinancialStatement.STATEMENT_TYPES, the first four
STATEMENT_TYPES ==
    { <<"s", "f", "p">>,
      <<"s", "f", "p", "_", "p", "e", "r", "f", "o", "r", "m", "a", "n", "c",
        "e">>,
      <<"s", "c", "f">>,
      <<"s", "c", "n", "a">> }

\* FinancialPeriod rows: periods 1 and 12 of one fiscal year
FiscalYear == 2024
PeriodNumbers == {1, 12}
Versions == 1 .. MaxVersion

\* FinancialStatement._generate_statement_code
generate_statement_code(statement_type, period_number, version) ==
    LET prefix == First3(upper(statement_type))
        year == FiscalYear
    IN prefix \o Str(year) \o Format02(period_number) \o Format02(version)

\* FinancialStatement(...).save() of a new statement without a code: the code
\* is generated and the row inserted.  unique_together
\* (statement_type, financial_period, version) and unique=True on
\* statement_code each raise IntegrityError.
SaveStatement(statement_type, period_number, version) ==
    LET code == generate_statement_code(statement_type, period_number,
                                        version)
        row == [statement_type |-> statement_type,
                period_number |-> period_number, version |-> version,
                statement_code |-> code]
        same_key == {s \in statements :
                        /\ s.statement_type = statement_type
                        /\ s.period_number = period_number
                        /\ s.version = version}
        same_code == {s \in statements : s.statement_code = code}
        Saved(res) ==
            [statement_type |-> statement_type,
             period_number |-> period_number, version |-> version,
             statement_code |-> code, result |-> res]
    IN
    /\ Cardinality(statements) < MaxStatements
    /\ IF same_key # {} \/ same_code # {}
       THEN /\ last_save' = Saved(ErrIntegrity)
            /\ UNCHANGED statements
       ELSE /\ last_save' = Saved("ok")
            /\ statements' = statements \cup {row}
    /\ UNCHANGED <<entries, lines, balance, period, req, now, applied, edits>>
    /\ UNCHANGED <<audit, live, numbers, creating>>
    /\ UNCHANGED <<inactive, reset_token, password, confirm>>

NextStatement ==
    \E t \in STATEMENT_TYPES, p \in PeriodNumbers, v \in Versions :
       SaveStatement(t, p, v)

SpecStatement == Init /\ [][NextStatement]_vars

\* ------------------------------------------------------------------ claims
get_balance_display_Unsigned(a, bal) == bal

\* get_balance_display of an account holding current_balance bal
get_balance_display(a, bal) ==
    IF normal_balance(a) = "debit" THEN bal ELSE -bal

\* steps of a request, recognised by the change of the worker's position
PostCalled(w) ==
    /\ req[w].pc = "loaded" /\ req'[w].pc # "loaded" /\ req'[w].op = "post"

PostRejected(w) == PostCalled(w) /\ req'[w].pc = "done"

PostCommitted(w) ==
    req[w].pc = "save" /\ req'[w].pc = "done" /\ req'[w].result = "ok"

PostAborted(w) ==
    InTxn(req[w]) /\ req'[w].pc = "done" /\ req'[w].result = ErrAborted

ApproveCalled(w) ==
    req[w].pc = "loaded" /\ req'[w].pc = "done" /\ req'[w].op = "approve"

\* C1: concurrent post attempts on one approved entry: exactly one succeeds,
\* so the lines of an entry are committed to the balances at most once.
C1_ExactlyOnePostSucceeds == \A e \in Entries : applied[e] <= 1

\* C2: posting is all-or-nothing.  A post that fails inside its transaction
\* leaves every committed balance and the committed entry as they were (the
\* entry it ran on still approved, without poster stamp); and the committed
\* balances change only in the step that commits all the lines of the entry
\* together with the status posted and the poster stamp.
C2_PostAllOrNothing ==
    [][ /\ \A w \in Workers :
             PostAborted(w) =>
                /\ balance' = balance
                /\ entries' = entries
                /\ (entries[req[w].entry] = req[w].inst =>
                       /\ entries'[req[w].entry].status = "approved"
                       /\ entries'[req[w].entry].posted_by = NoUser
                       /\ entries'[req[w].entry].posted_at = NoTime)
        /\ (balance' # balance =>
              \E w \in Workers :
                 /\ PostCommitted(w)
                 /\ req[w].idx = Len(req[w].snap) + 1
                 /\ DOMAIN req[w].wr = LineAccounts(req[w].snap)
                 /\ entries'[req[w].entry].status = "posted"
                 /\ entries'[req[w].entry].posted_by = req[w].actor)
      ]_vars

\* witness of C2: a post was rolled back after at least one of its lines had
\* been written, and the ledger shows nothing of it
C2_Witness ==
    \E w \in Workers :
       /\ req[w].pc = "done" /\ req[w].result = ErrAborted /\ req[w].idx >= 2
       /\ \A a \in Accounts : balance[a] = 0
       /\ entries[req[w].entry].status = "approved"
       /\ entries[req[w].entry].posted_by = NoUser

\* C3: an entry whose line debits do not sum to its line credits never
\* reaches pending, approved or posted.
C3_UnbalancedNeverLeavesDraft ==
    \A e \in Entries :
       entries[e].status \in {"pending", "approved", "posted"} =>
          SumDebits(lines[e]) = SumCredits(lines[e])

\* C4: a successful post changes the balance of each account referenced by
\* the lines it read by the sum of their (debit - credit), counted from the
\* balance the posting transaction read for that account; it leaves every
\* other balance unchanged and sets the entry posted with the poster and the
\* time of posting.
C4_PostAppliesSignedDeltas ==
    [][ \A w \in Workers :
           PostCommitted(w) =>
              LET r == req[w] IN
              /\ \A a \in Accounts :
                    balance'[a] = IF a \in LineAccounts(r.snap)
                                  THEN r.rd0[a] + Delta(r.snap, a)
                                  ELSE balance[a]
              /\ entries'[r.entry].status = "posted"
              /\ entries'[r.entry].posted_by = r.actor
              /\ r.actor # NoUser
              /\ entries'[r.entry].posted_at = now
              /\ now # NoTime
      ]_vars

\* witness of C4: the single post of an entry with two lines on one account
\* has committed
C4_Witness ==
    \E e \in Entries :
       /\ entries[e].status = "posted" /\ applied[e] = 1 /\ edits = 0
       /\ Len(lines[e]) = 2 /\ lines[e][1].account = lines[e][2].account
       /\ \A a \in Accounts : balance[a] = Delta(lines[e], a)
       /\ balance["cash"] # 0
       /\ entries[e].posted_by # NoUser /\ entries[e].posted_at # NoTime

ExampleLines(x) == <<Line("cash", x, 0), Line("revenue", 0, x)>>

\* C5: the example.  Posting (by an accountant) the entry (Cash debit X,
\* Revenue credit X) approved by a manager raises the balance of Cash and the
\* balance of Revenue by X and leaves the entry posted; a further post
\* attempt on the posted entry fails with the error "already posted" and
\* changes nothing.
C5_ExampleThenAlreadyPosted ==
    [][ \A w \in Workers :
          /\ (/\ PostCommitted(w)
              /\ \E x \in 1..MaxAmount : req[w].snap = ExampleLines(x)
              /\ req[w].actor = "accountant"
              /\ req[w].inst.approved_by = "manager"
              /\ \A a \in Accounts : req[w].rd0[a] = balance[a])
             => /\ \A a \in Accounts :
                     get_balance_display(a, balance'[a]) =
                        get_balance_display(a, balance[a])
                           + req[w].snap[1].debit_amount
                /\ entries'[req[w].entry].status = "posted"
          /\ (/\ PostRejected(w)
              /\ req[w].inst.status = "posted"
              /\ req[w].inst.approved_by = "manager"
              /\ req[w].inst.posted_by = "accountant"
              /\ \E x \in 1..MaxAmount : lines[req[w].entry] = ExampleLines(x))
             => /\ req'[w].result = "already posted"
                /\ balance' = balance
                /\ entries' = entries
      ]_vars

\* C6: post fails and changes nothing unless the entry it is called on is
\* approved and the caller is an accountant or an admin.
C6_PostGuard ==
    [][ \A w \in Workers :
          /\ PostCalled(w) =>
               IF req'[w].pc = "done"
               THEN /\ req'[w].result = ErrPost
                    /\ entries' = entries
                    /\ balance' = balance
               ELSE /\ req[w].inst.status = "approved"
                    /\ role(req'[w].actor) \in {"accountant", "admin"}
                    /\ entries' = entries
                    /\ balance' = balance
          /\ PostCommitted(w) =>
               /\ req[w].inst.status = "approved"
               /\ role(entries'[req[w].entry].posted_by) \in {"accountant", "admin"}
      ]_vars

\* witness of C6: a post call was refused while the entry is approved and
\* nothing was posted
C6_Witness ==
    \E w \in Workers :
       /\ req[w].pc = "done" /\ req[w].op = "post" /\ req[w].result = ErrPost
       /\ entries[req[w].entry].status = "approved"
       /\ entries[req[w].entry].posted_by = NoUser
       /\ \A a \in Accounts : balance[a] = 0

\* C7: approve succeeds only on a pending entry and for a manager or an
\* admin; then the entry is approved with the approver and the time
\* recorded; otherwise it fails and the entry is unchanged.
C7_ApproveGuard ==
    [][ \A w \in Workers :
          ApproveCalled(w) =>
             LET e == req[w].entry IN
             IF req'[w].result = "ok"
             THEN /\ req[w].inst.status = "pending"
                  /\ role(entries'[e].approved_by) \in {"manager", "admin"}
                  /\ entries'[e].status = "approved"
                  /\ entries'[e].approved_at = now
                  /\ now # NoTime
             ELSE /\ req'[w].result = ErrApprove
                  /\ entries' = entries
      ]_vars

\* witness of C7: an approve call succeeded
C7_Witness ==
    \E w \in Workers :
       /\ req[w].pc = "done" /\ req[w].op = "approve" /\ req[w].result = "ok"
       /\ entries[req[w].entry].status = "approved"
       /\ entries[req[w].entry].approved_by = "manager"
       /\ entries[req[w].entry].approved_at # NoTime

AllowedTransitions ==
    { <<"absent", "draft">>, <<"draft", "pending">>, <<"pending", "approved">>,
      <<"pending", "rejected">>, <<"approved", "posted">>,
      <<"draft", "cancelled">>, <<"pending", "cancelled">>,
      <<"approved", "cancelled">> }

\* C8: every change of an entry's status is one of the workflow's
\* transitions, and posted, rejected and cancelled are never left.
C8_OnlyWorkflowTransitions ==
    [][ \A e \in Entries :
          entries'[e].status # entries[e].status =>
             <<entries[e].status, entries'[e].status>> \in AllowedTransitions
      ]_vars

\* C9: the lines of a posted entry never change.
C9_PostedLinesImmutable ==
    [][ \A e \in Entries :
          entries[e].status = "posted" => lines'[e] = lines[e] ]_vars

\* C10: no entry becomes posted while its financial period is closed or
\* locked.
C10_NoPostIntoClosedPeriod ==
    [][ \A e \in Entries :
          (entries[e].status # "posted" /\ entries'[e].status = "posted") =>
             period'[entries'[e].fiscal_period] = "open" ]_vars

\* the exact debit/credit swap of a line set, on the same accounts
Swap(ls) ==
    [i \in DOMAIN ls |->
        Line(ls[i].account, ls[i].credit_amount, ls[i].debit_amount)]

\* the step in which reverse() returns without raising
ReverseReturned(w) ==
    /\ req[w].pc = "loaded"
    /\ req'[w].pc = "done"
    /\ req'[w].op = "reverse"
    /\ req'[w].result = "ok"

\* C11: reversing a posted entry E creates a new entry E' whose lines are
\* E's lines with debit and credit amounts swapped, on the same accounts.
C11_ReverseCreatesSwappedEntry ==
    [][\A w \in Workers :
          ReverseReturned(w) =>
             \E e2 \in DOMAIN entries :
                /\ entries[e2].status = "absent"
                /\ entries'[e2].status # "absent"
                /\ lines'[e2] = Swap(lines[req[w].entry])]_vars

\* C20: when two different approved entries with a line on the same account
\* have each been posted once, every balance is its initial value (zero)
\* plus the signed deltas of both entries.
C20_NoLostBalanceUpdate ==
    ( /\ DOMAIN entries = TwoEntries
      /\ \A e \in TwoEntries : entries[e].status = "posted" /\ applied[e] = 1
      /\ LineAccounts(lines[1]) \cap LineAccounts(lines[2]) # {}
      /\ \A w \in Workers : ~InTxn(req[w]) )
    => \A a \in Accounts :
          balance[a] = Delta(lines[1], a) + Delta(lines[2], a)

\* the step in which computeTrialBalance returns
TBComputed(w) ==
    /\ req[w].pc = "idle"
    /\ req'[w].pc = "done"
    /\ req'[w].op = "trial_balance"

\* C12: a trial balance computed over the posted entries of a period has
\* equal closing totals of debit-normal and credit-normal accounts, and
\* computing it again over the unchanged ledger gives the same totals.
C12_TrialBalanceFoots ==
    [][\A w \in Workers :
          TBComputed(w) =>
             /\ req'[w].tb.debit_normal = req'[w].tb.credit_normal
             /\ \E p \in Periods : req'[w].tb = TrialBalanceOf(p)']_vars

Terminal == {"posted", "rejected", "cancelled"}

\* C13: a period goes from open to closed only when every entry of the
\* period is posted, rejected or cancelled; with a draft, pending or
\* approved entry in it the period stays open.
C13_CloseOnlyWhenAllTerminal ==
    [][\A p \in Periods :
          (period[p] = "open" /\ period'[p] = "closed") =>
             \A e \in DOMAIN entries :
                (entries[e].status # "absent" /\ entries[e].fiscal_period = p)
                   => entries[e].status \in Terminal]_vars

C13_Witness ==
    /\ period[1] = "closed"
    /\ entries[1].status = "posted"
    /\ entries[1].fiscal_period = 1

\* C14: an entry becomes cancelled only from draft, pending or approved,
\* and the step changes no account balance; a posted entry is never made
\* cancelled.
C14_CancelOnlyBeforePosting ==
    [][\A e \in DOMAIN entries :
          (entries'[e].status = "cancelled" /\ entries[e].status # "cancelled")
             => /\ entries[e].status \in {"draft", "pending", "approved"}
                /\ balance' = balance
                /\ lines' = lines]_vars

C14_Witness ==
    /\ entries[1].status = "cancelled"
    /\ entries[1].approved_by # NoUser
    /\ \A a \in Accounts : balance[a] = 0

\* C17: account balances change only in the commit of a post; every other
\* step (submit, approve, reject, cancel, a failed post, a refused reverse,
\* a trial-balance computation) leaves every balance as it was, and a
\* trial-balance computation also leaves every entry and line as it was.
C17_BalancesChangeOnlyInPost ==
    [][/\ (balance' # balance) => \E w \in Workers : PostCommitted(w)
       /\ \A w \in Workers :
             TBComputed(w) =>
                entries' = entries /\ lines' = lines /\ balance' = balance]_vars

C17_Witness ==
    \E w1, w2 \in Workers :
       /\ req[w1].pc = "done" /\ req[w1].op = "post"
       /\ req[w1].result = ErrAborted /\ req[w1].idx > 1
       /\ req[w2].pc = "done" /\ req[w2].op = "trial_balance"
       /\ entries[1].status = "approved"
       /\ \A a \in Accounts : balance[a] = 0

DeleteCalled(w, a) ==
    /\ req[w].pc = "idle"
    /\ req'[w].pc = "done"
    /\ req'[w].op = "delete_account"
    /\ req'[w].account = a

PostedLineOn(a) ==
    \E e \in DOMAIN entries :
       /\ entries[e].status = "posted"
       /\ \E i \in DOMAIN lines[e] : lines[e][i].account = a

\* C18: deleting an account that a line of a posted entry references is
\* refused, and the account, every line and every balance stay as they were.
C18_DeleteProtected ==
    [][\A w \in Workers, a \in Accounts :
          (DeleteCalled(w, a) /\ PostedLineOn(a)) =>
             /\ req'[w].result = ErrProtected
             /\ live' = live
             /\ lines' = lines
             /\ balance' = balance]_vars

C18_Witness ==
    \E w \in Workers :
       /\ req[w].pc = "done"
       /\ req[w].op = "delete_account"
       /\ req[w].result = ErrProtected
       /\ PostedLineOn(req[w].account)
       /\ req[w].account \in live
       /\ balance[req[w].account] # 0

\* C16: no two entries receive the same entry number: a number given to an
\* entry being created is not the number of a stored entry, nor the number
\* given to another entry being created.
C16_EntryNumbersUnique ==
    \A w \in Workers :
       creating[w].pc = "generated" =>
          /\ creating[w].entry_number \notin numbers
          /\ \A w2 \in Workers \ {w} :
                creating[w2].pc = "generated" =>
                   creating[w2].entry_number # creating[w].entry_number

\* the audit action that names the transition into a status
TransitionName(st) ==
    CASE st = "pending" -> "submit"
      [] st = "approved" -> "approve"
      [] st = "rejected" -> "reject"
      [] st = "posted" -> "post"
      [] st = "cancelled" -> "cancel"
      [] OTHER -> "none"

\* C19: every step that changes the status of an entry or closes a period
\* leaves the matching fact in the audit sink, and no recorded fact is
\* altered or removed.
C19_TransitionsAudited ==
    [][/\ \A e \in DOMAIN entries :
             (entries[e].status # "absent"
                /\ entries'[e].status # entries[e].status)
             => AuditFact(TransitionName(entries'[e].status), e) \in audit'
       /\ \A p \in Periods :
             (period[p] = "open" /\ period'[p] = "closed")
             => AuditFact("period-close", p) \in audit'
       /\ audit \subseteq audit']_vars

\* C21: an entry that has no lines fails validation and never leaves draft:
\* its status is never pending, approved or posted.
C21_EmptyEntryStaysDraft ==
    \A e \in DOMAIN entries :
       lines[e] = <<>> => entries[e].status \notin {"pending", "approved", "posted"}

\* a request has validated its loaded instance
FullCleanCalled(w) ==
    /\ req[w].pc = "loaded"
    /\ req'[w].pc = "done" /\ req'[w].op = "full_clean"

\* C22: validation accepts the fiscal period of an entry exactly when it
\* lies in 1..12 (for an entry that is valid otherwise, i.e. whose header
\* totals agree).
C22_FiscalPeriodRange ==
    [][\A w \in Workers :
          (FullCleanCalled(w)
             /\ req[w].inst.total_debits = req[w].inst.total_credits)
          => (req'[w].result = "ok" <=> req[w].inst.fiscal_period \in 1..12)
      ]_vars

\* C23: the balance of an account never changes while the account is
\* inactive, and an entry that references an inactive account fails
\* validation, i.e. is not submitted.
C23_InactiveBalanceFrozen ==
    [][/\ \A a \in Accounts : a \in inactive => balance'[a] = balance[a]
       /\ \A e \in DOMAIN entries :
             (entries[e].status = "draft" /\ entries'[e].status = "pending")
             => LineAccounts(lines[e]) \cap inactive = {}
      ]_vars

\* the lines of entry e count for period p: the entry is posted in p
Counts(e, p) ==
    entries[e].status = "posted" /\ entries[e].fiscal_period = p

ReverseCalled(w) ==
    /\ req[w].pc = "loaded"
    /\ req'[w].pc = "done"
    /\ req'[w].op = "reverse"

\* C25: reverse is refused for an entry whose status is not posted, and
\* reversing a posted entry leaves the status, lines, amounts and stamps of
\* the original entry unchanged.
C25_ReverseGuard ==
    [][\A w \in Workers :
          ReverseCalled(w) =>
             /\ req[w].inst.status # "posted" => req'[w].result = ErrReverse
             /\ req[w].inst.status = "posted" => req'[w].result = "ok"
             /\ entries' = entries
             /\ lines' = lines
             /\ balance' = balance
      ]_vars

\* witness of C25: reverse has returned for one request that loaded the
\* posted entry and was refused for another that loaded it before it was
\* posted
C25_Witness ==
    \E w1 \in Workers, w2 \in Workers :
       /\ req[w1].pc = "done" /\ req[w1].op = "reverse"
       /\ req[w1].result = "ok"
       /\ req[w2].pc = "done" /\ req[w2].op = "reverse"
       /\ req[w2].result = ErrReverse
       /\ req[w1].entry = req[w2].entry
       /\ entries[req[w1].entry].status = "posted"
       /\ entries[req[w1].entry].posted_by # NoUser

\* C26: when the line debits of every entry sum to its line credits, the
\* sum of current_balance over all accounts is its initial value (zero)
\* after any sequence of approve and post operations, no post being in
\* progress.
C26_LedgerNetsToZero ==
    ( /\ \A e \in DOMAIN entries :
            SumDebits(lines[e]) = SumCredits(lines[e])
      /\ \A w \in Workers : ~InTxn(req[w]) )
    => SetSum(Accounts, balance) = 0

C28_DisplayedBalanceDelta ==
    [][\A w \in Workers :
          PostCommitted(w) =>
             LET r == req[w] IN
             \A a \in Accounts :
                LET before == IF a \in LineAccounts(r.snap)
                              THEN r.rd0[a] ELSE balance[a]
                IN get_balance_display(a, balance'[a])
                      - get_balance_display(a, before)
                   = IF normal_balance(a) = "debit"
                     THEN DebitOn(r.snap, a) - CreditOn(r.snap, a)
                     ELSE CreditOn(r.snap, a) - DebitOn(r.snap, a)
      ]_vars

\* witness of C28: the entry with a debit on cash and a credit on revenue
\* was posted once, and both displayed balances have risen by its amount
C28_Witness ==
    \E e \in Entries :
       /\ entries[e].status = "posted" /\ applied[e] = 1
       /\ DebitOn(lines[e], "cash") > 0
       /\ CreditOn(lines[e], "revenue") > 0
       /\ get_balance_display("cash", balance["cash"])
             = DebitOn(lines[e], "cash")
       /\ get_balance_display("revenue", balance["revenue"])
             = CreditOn(lines[e], "revenue")

\* C29: a password reset token changes the password at most once: after one
\* successful confirm the token is used, and a later or concurrent confirm
\* that presents it is rejected and does not change the password.
C29_TokenUsedOnce ==
    password.set <= 1

\* C30: the generated statement codes of two statements that differ in
\* statement type, financial period or version are distinct: a save that
\* satisfies the (statement_type, financial_period, version) uniqueness
\* rule never fails on the unique statement_code.
C30_StatementCodesDistinct ==
    last_save.result = ErrIntegrity
    => \E s \in statements :
          /\ s.statement_type = last_save.statement_type
          /\ s.period_number = last_save.period_number
          /\ s.version = last_save.version
====
